---- MODULE Spec2Model ----
(***************************************************************************)
(* PropertyHub: the listing page (Index), the detail page (PropertyDetail) *)
(* the search form (SearchForm) and the favorites panel (FavoritesPanel),  *)
(* with the browser's localStorage slot "propertyFavorites" they share.    *)
(*                                                                         *)
(* JavaScript values are tagged records ([k |-> "number", v |-> 1]); a     *)
(* Property object is the record of its fields; a string is the sequence   *)
(* of its characters; the text held by localStorage is a sequence of JSON  *)
(* tokens.  The image gallery (ImageGallery) is modelled for the image     *)
(* list it is given.                                                       *)
(***************************************************************************)
EXTENDS Integers, Sequences, FiniteSets, TLC

VARIABLES
    properties,          \* Index: the catalog (useState(propertiesData))
    filteredProperties,  \* Index: the current search result
    favorites,           \* Index: the favorites state
    indexMounted,        \* whether the listing page is mounted
    filters,             \* SearchForm: the filters state
    id,                  \* PropertyDetail: the route parameter (useParams)
    property,            \* PropertyDetail: the record shown, or Null
    detailFavorites,     \* PropertyDetail: the favorites state
    loading,             \* PropertyDetail: the loading flag
    detailMounted,       \* whether the detail page is mounted
    localStorage,        \* the value under "propertyFavorites" (Missing when absent)
    images,              \* ImageGallery: the images prop (<<>> while none is shown)
    selectedImage,       \* ImageGallery: the index of the image shown
    last                 \* the handler that ran last, its argument and outcome

vars == <<properties, filteredProperties, favorites, indexMounted, filters,
          id, property, detailFavorites, loading, detailMounted, localStorage,
          images, selectedImage, last>>

indexVars == <<filteredProperties, favorites, indexMounted>>
detailVars == <<id, property, detailFavorites, loading, detailMounted>>
galleryVars == <<images, selectedImage>>

----------------------------------------------------------------------------
(* Bounds of the model *)

MaxCatalog == 2        \* longest catalog handed to handleSearch in SpecSearch
MaxCriteria == 2       \* most fields set in a SearchFilters value in SpecSearch
MaxFormCriteria == 1   \* most fields set at once in Spec, SpecForm and SpecSearchAgain
MaxStored == 2         \* most records in a value found in storage at start
MaxImages == 3         \* longest image list handed to ImageGallery in SpecGallery

----------------------------------------------------------------------------
(* JavaScript values *)

Undefined == [k |-> "undefined"]
Null == [k |-> "null"]
NaN == [k |-> "NaN"]
Num(n) == [k |-> "number", v |-> n]
Str(s) == [k |-> "string", v |-> s]
Arr(s) == [k |-> "array", v |-> s]

IsTagged(x) == "k" \in DOMAIN x
IsArray(x) == IsTagged(x) /\ x.k = "array"
IsRecord(x) == ~IsTagged(x)

\* (variant for C28: every number but NaN is truthy, 0 too)
TruthyZero(x) ==
    IF ~IsTagged(x) THEN TRUE
    ELSE CASE x.k = "undefined" -> FALSE
           [] x.k = "null" -> FALSE
           [] x.k = "NaN" -> FALSE
           [] x.k = "string" -> Len(x.v) > 0
           [] OTHER -> TRUE

\* ToBoolean: undefined, null, NaN, 0 and "" are falsy; everything else is truthy
Truthy(x) ==
    IF ~IsTagged(x) THEN TRUE
    ELSE CASE x.k = "undefined" -> FALSE
           [] x.k = "null" -> FALSE
           [] x.k = "NaN" -> FALSE
           [] x.k = "number" -> x.v # 0
           [] x.k = "string" -> Len(x.v) > 0
           [] OTHER -> TRUE

\* a || b
Or(a, b) == IF Truthy(a) THEN a ELSE b

Digits == <<"0", "1", "2", "3", "4", "5", "6", "7", "8", "9">>
IsDigit(c) == \E i \in 1..10 : Digits[i] = c
DigitVal(c) == (CHOOSE i \in 1..10 : Digits[i] = c) - 1

RECURSIVE LeadingDigits(_)
LeadingDigits(s) ==
    IF Len(s) = 0 \/ ~IsDigit(s[1]) THEN 0 ELSE 1 + LeadingDigits(Tail(s))

RECURSIVE DigitsValue(_, _)
DigitsValue(s, n) ==
    IF n = 0 THEN 0 ELSE DigitsValue(s, n - 1) * 10 + DigitVal(s[n])

\* parseInt(s): an optional sign, then the leading decimal digits; NaN without any
ParseInt(s) ==
    LET signed == Len(s) > 0 /\ s[1] \in {"-", "+"}
        body == IF signed THEN Tail(s) ELSE s
        n == LeadingDigits(body)
        m == DigitsValue(body, n)
    IN  IF n = 0 THEN NaN
        ELSE Num(IF signed /\ s[1] = "-" THEN 0 - m ELSE m)

----------------------------------------------------------------------------
(* Property records (types/Property.ts) and the catalog *)

HOUSE == <<"H", "o", "u", "s", "e">>
FLAT == <<"F", "l", "a", "t">>
ANY == <<"A", "n", "y">>

Jan01 == <<"2", "0", "2", "4", "-", "0", "1", "-", "0", "1">>
Jun01 == <<"2", "0", "2", "4", "-", "0", "6", "-", "0", "1">>

Property(i, t, b, p, pc, a) ==
    [id |-> i, type |-> t, bedrooms |-> b, price |-> p, postcode |-> pc, added |-> a]

\* the records of data/properties.json (not part of the sources): one id each
\* prices and bedrooms are small so that the bounds 0 and 1 are met
House1 == Property(1, HOUSE, 2, 2, <<"S", "W", "1">>, Jan01)
Flat2 == Property(2, FLAT, 1, 1, <<"N", "W", "1">>, Jun01)
Flat3 == Property(3, FLAT, 0, 0, <<"s", "w", "1", "9">>, Jan01)
PropertyPool == {House1, Flat2, Flat3}

\* the catalog of Spec
Listing == <<House1, Flat2, Flat3>>

\* a snapshot from an earlier catalog: the record of id 1 at another price
StaleHouse1 == Property(1, HOUSE, 2, 1, <<"S", "W", "1">>, Jan01)
StalePool == {StaleHouse1}

SeqsUpTo(S, n) == UNION { [1..m -> S] : m \in 0..n }

UniqueIds(s) == \A i, j \in 1..Len(s) : s[i].id = s[j].id => i = j

Catalogs == { c \in SeqsUpTo(PropertyPool, MaxCatalog) : UniqueIds(c) }

Range(s) == { s[i] : i \in 1..Len(s) }

----------------------------------------------------------------------------
(* Array.prototype.filter / some / find on sequences *)

\* (variant for C11: each element passing the test goes in front of the earlier ones)
FilterNewestFirst(s, keep) ==
    LET kept[i \in 0..Len(s)] ==
            IF i = 0 THEN <<>>
            ELSE IF keep[s[i]] THEN <<s[i]>> \o kept[i - 1] ELSE kept[i - 1]
    IN  kept[Len(s)]

\* a callback over the elements of s, as the function of its results
\* filter visits the elements in index order and appends those passing the test
Filter(s, keep) ==
    LET kept[i \in 0..Len(s)] ==
            IF i = 0 THEN <<>>
            ELSE IF keep[s[i]] THEN Append(kept[i - 1], s[i]) ELSE kept[i - 1]
    IN  kept[Len(s)]

Some(s, test) == \E i \in 1..Len(s) : test[s[i]]

\* the first element passing the test, or undefined
Find(s, test) ==
    IF Some(s, test)
    THEN s[CHOOSE i \in 1..Len(s) : test[s[i]] /\ \A j \in 1..(i - 1) : ~test[s[j]]]
    ELSE Undefined

\* (variant for C23: the whole records compared)
SameIdDeep(fav, p) == IsRecord(fav) /\ fav = p

\* fav.id === p.id: an element that is no object has no id
SameId(fav, p) == IsRecord(fav) /\ fav.id = p.id

----------------------------------------------------------------------------
(* JSON.stringify / JSON.parse and the storage slot *)

Missing == [k |-> "missing"]    \* getItem returns null: the key is absent
Text(t) == [k |-> "text", v |-> t] \* the key holds the string t

Tok(c) == [t |-> c]
ObjTok(r) == [t |-> "obj", v |-> r]
NumTok(n) == [t |-> "num", v |-> Num(n)]

IsValueTok(tok) == tok.t \in {"obj", "num", "null"}
TokValue(tok) ==
    CASE tok.t = "obj" -> tok.v
      [] tok.t = "num" -> tok.v
      [] OTHER -> Null

RECURSIVE Join(_)
Join(s) ==
    IF Len(s) = 0 THEN <<>>
    ELSE IF Len(s) = 1 THEN <<ObjTok(s[1])>>
    ELSE <<ObjTok(s[1]), Tok(",")>> \o Join(Tail(s))

\* (variant for C20: only the first element is written)
JSONstringifyFirst(a) ==
    <<Tok("[")>> \o Join(IF Len(a) = 0 THEN <<>> ELSE <<a[1]>>) \o <<Tok("]")>>

\* JSON.stringify of an array of Property objects
JSONstringify(a) == <<Tok("[")>> \o Join(a) \o <<Tok("]")>>

\* the elements between the brackets: value (, value)*
ElementsOk(body) ==
    /\ Len(body) % 2 = 1
    /\ \A i \in 1..Len(body) :
          IF i % 2 = 1 THEN IsValueTok(body[i]) ELSE body[i].t = ","

\* JSON.parse: [ok |-> TRUE, v |-> value], or [ok |-> FALSE] for a SyntaxError
JSONparse(text) ==
    IF Len(text) = 1 /\ IsValueTok(text[1])
    THEN [ok |-> TRUE, v |-> TokValue(text[1])]
    ELSE IF Len(text) >= 2 /\ text[1].t = "[" /\ text[Len(text)].t = "]"
    THEN LET body == SubSeq(text, 2, Len(text) - 1)
         IN  IF Len(body) = 0 THEN [ok |-> TRUE, v |-> Arr(<<>>)]
             ELSE IF ElementsOk(body)
             THEN [ok |-> TRUE,
                   v |-> Arr([i \in 1..((Len(body) + 1) \div 2) |-> TokValue(body[2 * i - 1])])]
             ELSE [ok |-> FALSE]
    ELSE [ok |-> FALSE]

\* localStorage.getItem('propertyFavorites') is truthy: present and not ""
SavedTruthy(saved) == saved.k = "text" /\ Len(saved.v) > 0

\* what a previous session, or anything else on the origin, may have left in
\* the slot: nothing, the empty string, a well-formed array (with stale or
\* repeated records too), and values that are no array of records
StoredArrays == SeqsUpTo(PropertyPool \cup StalePool, MaxStored)

StoredTexts ==
    {Missing, Text(<<>>)}
    \cup { Text(JSONstringify(a)) : a \in StoredArrays }
    \cup { Text(<<Tok("[")>>), Text(<<Tok("[")>> \o Join(<<House1>>)),
           Text(<<Tok("null")>>), Text(<<NumTok(5)>>), Text(<<ObjTok(House1)>>) }

----------------------------------------------------------------------------
(* The favorites logic of the two pages *)

\* the record kept in `last`: the handler, its argument, the favorites state and
\* the slot it started from, and the error it threw
Ran(op, arg, before, stored, threw) ==
    [op |-> op, arg |-> arg, before |-> before, stored |-> stored, threw |-> threw]

\* (variant for C27: nothing is read from the slot)
HydrateNothing(current) == [threw |-> "none", favorites |-> current]

\* the load step of both effects (PropertyDetail 45-48, Index 396-399):
\* the favorites state afterwards, and the error thrown if any
Hydrate(current) ==
    IF ~SavedTruthy(localStorage) THEN [threw |-> "none", favorites |-> current]
    ELSE LET parsed == JSONparse(localStorage.v)
         IN  IF parsed.ok THEN [threw |-> "none", favorites |-> parsed.v]
             ELSE [threw |-> "SyntaxError", favorites |-> current]

\* Index renders favorites.length and hands favorites to FavoritesPanel, which
\* maps over it and formats each entry's price: a TypeError unless it is an
\* array of objects
IndexRenders(favs) == IsArray(favs) /\ \A i \in 1..Len(favs.v) : IsRecord(favs.v[i])

\* PropertyDetail evaluates favorites.some(...) only when a property is shown
DetailRenders(prop, favs) == prop = Null \/ IsArray(favs)

\* Index.isFavorite(propertyId)
IndexIsFavorite(favs, propertyId) ==
    Some(favs, [fav \in Range(favs) |-> IsRecord(fav) /\ fav.id = propertyId])

\* the isFavorite constant of PropertyDetail
DetailIsFavorite(prop, favs) ==
    IF Truthy(prop)
    THEN Some(favs, [fav \in Range(favs) |-> IsRecord(fav) /\ fav.id = prop.id])
    ELSE FALSE

\* (variant for C2: the write serializes the state from before the toggle)
IndexStaleWrite(favs, p) ==
    LET isAlreadyFavorite == Some(favs, [fav \in Range(favs) |-> SameId(fav, p)])
        newFavorites == IF isAlreadyFavorite
                        THEN Filter(favs, [fav \in Range(favs) |-> ~SameId(fav, p)])
                        ELSE Append(favs, p)
    IN  [favorites |-> Arr(newFavorites), stored |-> Text(JSONstringify(favs))]

\* (variant for C1: the new favorite goes first)
IndexPrepend(favs, p) ==
    LET isAlreadyFavorite == Some(favs, [fav \in Range(favs) |-> SameId(fav, p)])
        newFavorites == IF isAlreadyFavorite
                        THEN Filter(favs, [fav \in Range(favs) |-> ~SameId(fav, p)])
                        ELSE <<p>> \o favs
    IN  [favorites |-> Arr(newFavorites), stored |-> Text(JSONstringify(newFavorites))]

\* (variant for C16: only the first entry of the id is taken out)
IndexRemoveFirst(favs, p) ==
    LET isAlreadyFavorite == Some(favs, [fav \in Range(favs) |-> SameId(fav, p)])
        first == CHOOSE i \in 1..Len(favs) :
                     SameId(favs[i], p) /\ \A j \in 1..(i - 1) : ~SameId(favs[j], p)
        newFavorites == IF isAlreadyFavorite
                        THEN SubSeq(favs, 1, first - 1) \o SubSeq(favs, first + 1, Len(favs))
                        ELSE Append(favs, p)
    IN  [favorites |-> Arr(newFavorites), stored |-> Text(JSONstringify(newFavorites))]

\* (variant for C29: the key is removed when no favorite is left)
IndexEraseWhenEmpty(favs, p) ==
    LET isAlreadyFavorite == Some(favs, [fav \in Range(favs) |-> SameId(fav, p)])
        newFavorites == IF isAlreadyFavorite
                        THEN Filter(favs, [fav \in Range(favs) |-> ~SameId(fav, p)])
                        ELSE Append(favs, p)
    IN  [favorites |-> Arr(newFavorites),
         stored |-> IF Len(newFavorites) = 0 THEN Missing
                    ELSE Text(JSONstringify(newFavorites))]

\* Index.handleFavorite: the new favorites state and the value written
IndexToggle(favs, p) ==
    LET isAlreadyFavorite == Some(favs, [fav \in Range(favs) |-> SameId(fav, p)])
        newFavorites == IF isAlreadyFavorite
                        THEN Filter(favs, [fav \in Range(favs) |-> ~SameId(fav, p)])
                        ELSE Append(favs, p)
    IN  [favorites |-> Arr(newFavorites), stored |-> Text(JSONstringify(newFavorites))]

\* (variant for C18: the property is appended whether or not its id is there)
DetailAppend(favs, prop) ==
    LET newFavorites == Append(favs, prop)
    IN  [favorites |-> Arr(newFavorites), stored |-> Text(JSONstringify(newFavorites))]

\* (variant for C26: the toggle is applied to the stored value and written back)
DetailMergeWrite(favs, prop) ==
    LET isAlreadyFavorite == Some(favs, [fav \in Range(favs) |-> SameId(fav, prop)])
        newFavorites == IF isAlreadyFavorite
                        THEN Filter(favs, [fav \in Range(favs) |-> ~SameId(fav, prop)])
                        ELSE Append(favs, prop)
        held == IF SavedTruthy(localStorage) THEN JSONparse(localStorage.v).v.v ELSE <<>>
        merged == IF Some(held, [fav \in Range(held) |-> SameId(fav, prop)])
                  THEN Filter(held, [fav \in Range(held) |-> ~SameId(fav, prop)])
                  ELSE Append(held, prop)
    IN  [favorites |-> Arr(newFavorites), stored |-> Text(JSONstringify(merged))]

\* PropertyDetail.handleFavorite, for the property shown
DetailToggle(favs, prop) ==
    LET isAlreadyFavorite == Some(favs, [fav \in Range(favs) |-> SameId(fav, prop)])
        newFavorites == IF isAlreadyFavorite
                        THEN Filter(favs, [fav \in Range(favs) |-> ~SameId(fav, prop)])
                        ELSE Append(favs, prop)
    IN  [favorites |-> Arr(newFavorites), stored |-> Text(JSONstringify(newFavorites))]

----------------------------------------------------------------------------
(* The search criteria (SearchForm) and Index.handleSearch *)

Keys == <<"type", "minPrice", "maxPrice", "minBedrooms", "maxBedrooms",
          "postcodeArea", "dateFrom", "dateTo">>
KeySet == Range(Keys)
NumericKeys == {"minPrice", "maxPrice", "minBedrooms", "maxBedrooms"}

\* useState<SearchFilters>({}): reading an absent field yields undefined
EmptyFilters == [key \in KeySet |-> Undefined]

Present(f) == { key \in KeySet : f[key] # Undefined }

UpperCase == <<"A", "B", "C", "D", "E", "F", "G", "H", "I", "J", "K", "L", "M",
               "N", "O", "P", "Q", "R", "S", "T", "U", "V", "W", "X", "Y", "Z">>
LowerCase == <<"a", "b", "c", "d", "e", "f", "g", "h", "i", "j", "k", "l", "m",
               "n", "o", "p", "q", "r", "s", "t", "u", "v", "w", "x", "y", "z">>

\* String.prototype.toLowerCase
ToLowerCase(s) ==
    [i \in 1..Len(s) |->
        IF \E j \in 1..Len(UpperCase) : UpperCase[j] = s[i]
        THEN LowerCase[CHOOSE j \in 1..Len(UpperCase) : UpperCase[j] = s[i]]
        ELSE s[i]]

\* String.prototype.includes
Includes(s, part) ==
    \E i \in 0..(Len(s) - Len(part)) : SubSeq(s, i + 1, i + Len(part)) = part

\* new Date(s).valueOf() for date-only ISO text "YYYY-MM-DD": a number that
\* orders valid dates as their timestamps do; NaN (Invalid Date) otherwise
DateValue(s) ==
    IF /\ Len(s) = Len(Jan01)
       /\ \A i \in 1..Len(s) : IF i \in {5, 8} THEN s[i] = "-" ELSE IsDigit(s[i])
    THEN LET y == DigitsValue(SubSeq(s, 1, 4), 4)
             m == DigitsValue(SubSeq(s, 6, 7), 2)
             d == DigitsValue(SubSeq(s, 9, 10), 2)
         IN  IF m \in 1..12 /\ d \in 1..31 THEN Num((y * 12 + (m - 1)) * 31 + (d - 1))
             ELSE NaN
    ELSE NaN

\* a >= b and a <= b on numbers: false when either side is NaN
Ge(a, b) == a.k = "number" /\ b.k = "number" /\ a.v >= b.v
Le(a, b) == a.k = "number" /\ b.k = "number" /\ a.v <= b.v

\* a === b on strings
StrictEq(s, x) == x.k = "string" /\ x.v = s

\* (variant for C9: the test on filters.type itself left out)
ByTypeUnguarded(f, filtered) ==
    IF f.type # Str(ANY)
    THEN Filter(filtered, [p \in Range(filtered) |-> StrictEq(p.type, f.type)])
    ELSE filtered

\* (variant for C12: the types compared without regard to case)
ByTypeAnyCase(f, filtered) ==
    IF Truthy(f.type) /\ f.type # Str(ANY)
    THEN Filter(filtered, [p \in Range(filtered) |->
             f.type.k = "string" /\ ToLowerCase(p.type) = ToLowerCase(f.type.v)])
    ELSE filtered

ByType(f, filtered) ==
    IF Truthy(f.type) /\ f.type # Str(ANY)
    THEN Filter(filtered, [p \in Range(filtered) |-> StrictEq(p.type, f.type)])
    ELSE filtered

\* (variant for C6: > in place of >=)
ByMinPriceStrict(f, filtered) ==
    IF Truthy(f.minPrice)
    THEN Filter(filtered, [p \in Range(filtered) |-> Ge(Num(p.price), f.minPrice) /\ Num(p.price) # f.minPrice])
    ELSE filtered

ByMinPrice(f, filtered) ==
    IF Truthy(f.minPrice)
    THEN Filter(filtered, [p \in Range(filtered) |-> Ge(Num(p.price), f.minPrice)])
    ELSE filtered

ByMaxPrice(f, filtered) ==
    IF Truthy(f.maxPrice)
    THEN Filter(filtered, [p \in Range(filtered) |-> Le(Num(p.price), f.maxPrice)])
    ELSE filtered

ByMinBedrooms(f, filtered) ==
    IF Truthy(f.minBedrooms)
    THEN Filter(filtered, [p \in Range(filtered) |-> Ge(Num(p.bedrooms), f.minBedrooms)])
    ELSE filtered

\* (variant for C10: the step filters the catalog, dropping the earlier steps)
ByMaxBedroomsOfCatalog(f, filtered) ==
    IF Truthy(f.maxBedrooms)
    THEN Filter(properties, [p \in Range(properties) |-> Le(Num(p.bedrooms), f.maxBedrooms)])
    ELSE filtered

ByMaxBedrooms(f, filtered) ==
    IF Truthy(f.maxBedrooms)
    THEN Filter(filtered, [p \in Range(filtered) |-> Le(Num(p.bedrooms), f.maxBedrooms)])
    ELSE filtered

\* (variant for C13: the criterion taken as typed, only the postcode lowered)
ByPostcodeAreaAsTyped(f, filtered) ==
    IF Truthy(f.postcodeArea)
    THEN Filter(filtered, [p \in Range(filtered) |->
             Includes(ToLowerCase(p.postcode), f.postcodeArea.v)])
    ELSE filtered

ByPostcodeArea(f, filtered) ==
    IF Truthy(f.postcodeArea)
    THEN Filter(filtered, [p \in Range(filtered) |->
             Includes(ToLowerCase(p.postcode), ToLowerCase(f.postcodeArea.v))])
    ELSE filtered

\* (variant for C14: the day of the bound itself left out)
ByDateFromAfter(f, filtered) ==
    IF Truthy(f.dateFrom)
    THEN Filter(filtered, [p \in Range(filtered) |->
             /\ Ge(DateValue(p.added), DateValue(f.dateFrom.v))
             /\ DateValue(p.added) # DateValue(f.dateFrom.v)])
    ELSE filtered

ByDateFrom(f, filtered) ==
    IF Truthy(f.dateFrom)
    THEN Filter(filtered, [p \in Range(filtered) |-> Ge(DateValue(p.added), DateValue(f.dateFrom.v))])
    ELSE filtered

ByDateTo(f, filtered) ==
    IF Truthy(f.dateTo)
    THEN Filter(filtered, [p \in Range(filtered) |-> Le(DateValue(p.added), DateValue(f.dateTo.v))])
    ELSE filtered

\* the if-statement of handleSearch for one criterion
Step(key, f, filtered) ==
    CASE key = "type" -> ByType(f, filtered)
      [] key = "minPrice" -> ByMinPrice(f, filtered)
      [] key = "maxPrice" -> ByMaxPrice(f, filtered)
      [] key = "minBedrooms" -> ByMinBedrooms(f, filtered)
      [] key = "maxBedrooms" -> ByMaxBedrooms(f, filtered)
      [] key = "postcodeArea" -> ByPostcodeArea(f, filtered)
      [] key = "dateFrom" -> ByDateFrom(f, filtered)
      [] key = "dateTo" -> ByDateTo(f, filtered)

\* the if-statements taken in the order given
RECURSIVE Steps(_, _, _)
Steps(order, f, filtered) ==
    IF Len(order) = 0 THEN filtered
    ELSE Steps(Tail(order), f, Step(order[1], f, filtered))

\* (variant for C24: the search narrows what the earlier search left on show)
SearchWithinShown(catalog, shown, f) == Steps(Keys, f, shown)

\* Index.handleSearch: the value passed to setFilteredProperties
SearchResult(catalog, shown, f) == Steps(Keys, f, catalog)

----------------------------------------------------------------------------
(* What the widgets of SearchForm and the router can hand to the handlers *)

TypeOptions == {Str(ANY), Str(HOUSE), Str(FLAT)}                  \* SelectItem values
NumberInputs == {<<>>, <<"0">>, <<"1">>}                          \* <input type="number">
BedroomOptions == {<<"1">>, <<"2">>}                              \* SelectItem values
PostcodeInputs == {<<>>, <<"s", "w">>}                            \* <input type="text">
DateInputs == {<<>>, Jun01}                                       \* <input type="date">

\* the value each widget's onChange passes to handleFilterChange
FormValues(key) ==
    CASE key = "type" -> TypeOptions
      [] key \in {"minPrice", "maxPrice"} -> { ParseInt(raw) : raw \in NumberInputs }
      [] key \in {"minBedrooms", "maxBedrooms"} -> { ParseInt(raw) : raw \in BedroomOptions }
      [] key = "postcodeArea" -> { Str(raw) : raw \in PostcodeInputs }
      [] key \in {"dateFrom", "dateTo"} -> { Str(raw) : raw \in DateInputs }

\* the values the SearchFilters type admits for each field
FieldValues(key) ==
    CASE key = "type" -> TypeOptions \cup {Str(<<"h", "o", "u", "s", "e">>)}
      [] key \in {"minPrice", "maxPrice"} -> {NaN} \cup { Num(n) : n \in -1..2 }
      [] key \in {"minBedrooms", "maxBedrooms"} -> {NaN} \cup { Num(n) : n \in 0..2 }
      [] key = "postcodeArea" -> {Str(<<"s", "w">>), Str(<<"N", "W", "1">>)}
      [] key \in {"dateFrom", "dateTo"} -> {Str(Jan01), Str(Jun01)}

\* the SearchFilters values with at most n fields set
FiltersWith(n) ==
    UNION { { [key \in KeySet |-> IF key \in K THEN g[key] ELSE Undefined] :
                g \in { h \in [K -> UNION { FieldValues(key) : key \in K }] :
                          \A key \in K : h[key] \in FieldValues(key) } } :
            K \in { J \in SUBSET KeySet : Cardinality(J) <= n } }

\* the route parameter: /property/:id
RouteIds == {Undefined, Str(<<"1">>), Str(<<"2">>), Str(<<"0">>), Str(<<"x">>),
             Str(<<"1", "x">>)}

----------------------------------------------------------------------------
(* State after construction: no page mounted yet *)

NothingRan == Ran("none", Undefined, Undefined, Undefined, "none")

\* no gallery on show
NoGallery == images = <<>> /\ selectedImage = 0

\* nothing mounted: the listing data loaded, the slot holding `stored`
Fresh(catalog, stored) ==
    /\ properties = catalog
    /\ filteredProperties = catalog
    /\ favorites = Arr(<<>>)
    /\ indexMounted = FALSE
    /\ filters = EmptyFilters
    /\ id = Undefined
    /\ property = Null
    /\ detailFavorites = Arr(<<>>)
    /\ loading = TRUE
    /\ detailMounted = FALSE
    /\ localStorage = stored
    /\ NoGallery
    /\ last = NothingRan

\* a first visit: the key is absent
Init == Fresh(Listing, Missing)

\* a later visit: the slot holds whatever was left in it
InitStored == \E stored \in StoredTexts : Fresh(Listing, stored)

\* what an earlier search may have left on show
EarlierResults(catalog) == { ByType(g, catalog) : g \in FiltersWith(1) }

\* handleSearch about to be called for the first time: any catalog, any
\* SearchFilters value
InitSearch ==
    /\ properties \in Catalogs
    /\ filteredProperties = properties
    /\ favorites = Arr(<<>>)
    /\ indexMounted = TRUE
    /\ filters \in FiltersWith(MaxCriteria)
    /\ id = Undefined
    /\ property = Null
    /\ detailFavorites = Arr(<<>>)
    /\ loading = TRUE
    /\ detailMounted = FALSE
    /\ localStorage = Missing
    /\ NoGallery
    /\ last = NothingRan

\* the listing page on show over any catalog, the form still empty
InitForm ==
    /\ properties \in Catalogs
    /\ filteredProperties = properties
    /\ favorites = Arr(<<>>)
    /\ indexMounted = TRUE
    /\ filters = EmptyFilters
    /\ id = Undefined
    /\ property = Null
    /\ detailFavorites = Arr(<<>>)
    /\ loading = TRUE
    /\ detailMounted = FALSE
    /\ localStorage = Missing
    /\ NoGallery
    /\ last = NothingRan

\* handleSearch about to be called again: the result of an earlier search on show
InitSearchAgain ==
    /\ properties \in Catalogs
    /\ filteredProperties \in EarlierResults(properties)
    /\ favorites = Arr(<<>>)
    /\ indexMounted = TRUE
    /\ filters \in FiltersWith(MaxFormCriteria)
    /\ id = Undefined
    /\ property = Null
    /\ detailFavorites = Arr(<<>>)
    /\ loading = TRUE
    /\ detailMounted = FALSE
    /\ localStorage = Missing
    /\ NoGallery
    /\ last = NothingRan

----------------------------------------------------------------------------
(* The listing page *)

\* the page is gone (navigation, or an uncaught error unmounting the tree):
\* its state is discarded
IndexGone ==
    /\ indexMounted' = FALSE
    /\ favorites' = Arr(<<>>)
    /\ filteredProperties' = properties
    /\ filters' = EmptyFilters

\* Index mounts: the useState initial values, then the effect hydrating favorites
IndexOpen ==
    /\ ~indexMounted
    /\ LET loaded == Hydrate(Arr(<<>>))
           threw == IF loaded.threw # "none" THEN loaded.threw
                    ELSE IF ~IndexRenders(loaded.favorites) THEN "TypeError"
                    ELSE "none"
       IN  /\ IF threw = "none"
              THEN /\ indexMounted' = TRUE
                   /\ favorites' = loaded.favorites
                   /\ filteredProperties' = properties
                   /\ filters' = EmptyFilters
              ELSE IndexGone
           /\ last' = Ran("Index.mount", Undefined, loaded.favorites, localStorage, threw)
    /\ UNCHANGED <<galleryVars, properties, detailVars, localStorage>>

\* the router shows one page at a time
IndexMount == ~detailMounted /\ IndexOpen

IndexUnmount ==
    /\ indexMounted
    /\ IndexGone
    /\ last' = Ran("Index.unmount", Undefined, favorites, localStorage, "none")
    /\ UNCHANGED <<galleryVars, properties, detailVars, localStorage>>

\* Index.handleFavorite(property), reached through the callback named by `via`
IndexHandleFavorite(via, p) ==
    /\ indexMounted
    /\ LET r == IndexToggle(favorites.v, p)
       IN  /\ favorites' = r.favorites
           /\ localStorage' = r.stored
    /\ last' = Ran(via, p, favorites, localStorage, "none")
    /\ UNCHANGED <<galleryVars, properties, filteredProperties, indexMounted, filters, detailVars>>

\* the heart button of a PropertyCard: one card per record of the result
CardFavorite ==
    \E p \in Range(filteredProperties) : IndexHandleFavorite("PropertyCard.onFavorite", p)

\* the remove button of FavoritesPanel: one per entry of favorites
PanelRemove ==
    \E p \in Range(favorites.v) : IndexHandleFavorite("FavoritesPanel.onRemoveFavorite", p)

\* the props of PropertyCard and FavoritesPanel called with any Property, as
\* their declared types allow
OnFavorite ==
    \E p \in PropertyPool \cup StalePool : IndexHandleFavorite("PropertyCard.onFavorite", p)

OnRemoveFavorite ==
    \E p \in PropertyPool \cup StalePool :
        IndexHandleFavorite("FavoritesPanel.onRemoveFavorite", p)

\* (variant for C17: an empty list is written in place of removing the key)
ClearFavoritesToEmptyList ==
    /\ indexMounted
    /\ Len(favorites.v) > 0
    /\ favorites' = Arr(<<>>)
    /\ localStorage' = Text(JSONstringify(<<>>))
    /\ last' = Ran("Index.clearFavorites", Undefined, favorites, localStorage, "none")
    /\ UNCHANGED <<galleryVars, properties, filteredProperties, indexMounted, filters, detailVars>>

\* Index.clearFavorites; FavoritesPanel shows the button when favorites.length > 0
ClearFavorites ==
    /\ indexMounted
    /\ Len(favorites.v) > 0
    /\ favorites' = Arr(<<>>)
    /\ localStorage' = Missing
    /\ last' = Ran("Index.clearFavorites", Undefined, favorites, localStorage, "none")
    /\ UNCHANGED <<galleryVars, properties, filteredProperties, indexMounted, filters, detailVars>>

\* (variant for C15: the value stored as given, without `|| undefined`)
HandleFilterChangeAsGiven(key, value) ==
    /\ indexMounted
    /\ filters' = [filters EXCEPT ![key] = value]
    /\ Cardinality(Present(filters')) <= MaxFormCriteria
    /\ last' = Ran("SearchForm.handleFilterChange", [key |-> key, value |-> value],
                   favorites, localStorage, "none")
    /\ UNCHANGED <<galleryVars, properties, filteredProperties, favorites, indexMounted,
                   detailVars, localStorage>>

\* SearchForm.handleFilterChange(key, value)
HandleFilterChange(key, value) ==
    /\ indexMounted
    /\ filters' = [filters EXCEPT ![key] = Or(value, Undefined)]
    /\ Cardinality(Present(filters')) <= MaxFormCriteria
    /\ last' = Ran("SearchForm.handleFilterChange", [key |-> key, value |-> value],
                   favorites, localStorage, "none")
    /\ UNCHANGED <<galleryVars, properties, filteredProperties, favorites, indexMounted,
                   detailVars, localStorage>>

FormChange == \E key \in KeySet : \E value \in FormValues(key) : HandleFilterChange(key, value)

\* (variant for C25: the catalog itself is cut down to the result)
HandleSearchInPlace(f) ==
    /\ indexMounted
    /\ properties' = SearchResult(properties, filteredProperties, f)
    /\ filteredProperties' = SearchResult(properties, filteredProperties, f)
    /\ last' = Ran("Index.handleSearch", f,
                   [favorites |-> favorites, shown |-> filteredProperties,
                    catalog |-> properties],
                   localStorage, "none")
    /\ UNCHANGED <<galleryVars, favorites, indexMounted, filters, detailVars, localStorage>>

\* Index.handleSearch(f)
HandleSearch(f) ==
    /\ indexMounted
    /\ filteredProperties' = SearchResult(properties, filteredProperties, f)
    /\ last' = Ran("Index.handleSearch", f,
                   [favorites |-> favorites, shown |-> filteredProperties,
                    catalog |-> properties],
                   localStorage, "none")
    /\ UNCHANGED <<galleryVars, properties, favorites, indexMounted, filters, detailVars, localStorage>>

\* SearchForm.handleSubmit: onSearch(filters)
HandleSubmit == HandleSearch(filters)

----------------------------------------------------------------------------
(* The detail page *)

DetailGone ==
    /\ detailMounted' = FALSE
    /\ id' = Undefined
    /\ property' = Null
    /\ detailFavorites' = Arr(<<>>)
    /\ loading' = TRUE

\* (variant for C22: the number taken as a position in the catalog)
FoundPropertyByPosition(routeId) ==
    LET propertyId == ParseInt(Or(routeId, Str(<<"0">>)).v)
    IN  IF propertyId.k = "number" /\ propertyId.v \in 1..Len(properties)
        THEN properties[propertyId.v]
        ELSE Undefined

\* the lookup of the effect: parseInt(id || '0'), then find by id
FoundProperty(routeId) ==
    LET propertyId == ParseInt(Or(routeId, Str(<<"0">>)).v)
    IN  Find(properties, [p \in Range(properties) |-> propertyId.k = "number" /\ p.id = propertyId.v])

\* the effect of PropertyDetail, run on mount and whenever id changes
DetailEffect(op, routeId, current) ==
    LET found == Or(FoundProperty(routeId), Null)
        loaded == Hydrate(current)
        threw == IF loaded.threw # "none" THEN loaded.threw
                 ELSE IF ~DetailRenders(found, loaded.favorites) THEN "TypeError"
                 ELSE "none"
    IN  /\ IF threw = "none"
           THEN /\ detailMounted' = TRUE
                /\ id' = routeId
                /\ property' = found
                /\ detailFavorites' = loaded.favorites
                /\ loading' = FALSE
           ELSE DetailGone
        /\ last' = Ran(op, routeId, loaded.favorites, localStorage, threw)
        /\ UNCHANGED <<galleryVars, properties, indexVars, filters, localStorage>>

DetailOpen == \E routeId \in RouteIds :
    /\ ~detailMounted
    /\ DetailEffect("PropertyDetail.mount", routeId, Arr(<<>>))

DetailMount == ~indexMounted /\ DetailOpen

DetailNavigate == \E routeId \in RouteIds :
    /\ detailMounted
    /\ routeId # id
    /\ DetailEffect("PropertyDetail.idChange", routeId, detailFavorites)

DetailUnmount ==
    /\ detailMounted
    /\ DetailGone
    /\ last' = Ran("PropertyDetail.unmount", Undefined, detailFavorites, localStorage, "none")
    /\ UNCHANGED <<galleryVars, properties, indexVars, filters, localStorage>>

\* PropertyDetail.handleFavorite; the heart button exists once a property is shown
DetailHandleFavorite ==
    /\ detailMounted
    /\ property # Null
    /\ LET r == DetailToggle(detailFavorites.v, property)
       IN  /\ detailFavorites' = r.favorites
           /\ localStorage' = r.stored
    /\ last' = Ran("PropertyDetail.handleFavorite", property, detailFavorites,
                   localStorage, "none")
    /\ UNCHANGED <<galleryVars, properties, indexVars, filters, id, property, loading, detailMounted>>

----------------------------------------------------------------------------
(* The image gallery *)

ImageNames == {"a.jpg", "b.jpg"}

\* the image lists with at least one image
ImageLists == UNION { [1..n -> ImageNames] : n \in 1..MaxImages }

\* the keys of a keydown event
KeyboardKeys == {"ArrowLeft", "ArrowRight", "Enter"}

\* (variant for C30: the step back without the list length added)
PrevImageNoWrap(prev, length) == IF prev = 0 THEN 0 - 1 ELSE (prev - 1) % length

\* the updater of nextImage: (prev + 1) % images.length
NextImage(prev, length) == (prev + 1) % length

\* the updater of prevImage: (prev - 1 + images.length) % images.length
PrevImage(prev, length) == (prev - 1 + length) % length

\* ImageGallery shown for a list of images: useState(0)
InitGallery ==
    /\ properties = Listing
    /\ filteredProperties = Listing
    /\ favorites = Arr(<<>>)
    /\ indexMounted = FALSE
    /\ filters = EmptyFilters
    /\ id = Undefined
    /\ property = Null
    /\ detailFavorites = Arr(<<>>)
    /\ loading = TRUE
    /\ detailMounted = FALSE
    /\ localStorage = Missing
    /\ images \in ImageLists
    /\ selectedImage = 0
    /\ last = NothingRan

\* setSelectedImage(index), with the handler and the control it came from
SetSelectedImage(op, via, index) ==
    /\ Len(images) > 0
    /\ selectedImage' = index
    /\ last' = Ran(op, [via |-> via], Num(selectedImage), localStorage, "none")
    /\ UNCHANGED <<properties, indexVars, filters, detailVars, localStorage, images>>

\* the arrow buttons, rendered when there are several images
GalleryNext ==
    /\ Len(images) > 1
    /\ SetSelectedImage("ImageGallery.nextImage", "button",
                        NextImage(selectedImage, Len(images)))

GalleryPrev ==
    /\ Len(images) > 1
    /\ SetSelectedImage("ImageGallery.prevImage", "button",
                        PrevImage(selectedImage, Len(images)))

\* ImageGallery.handleKeyDown
GalleryKeyDown == \E key \in KeyboardKeys :
    IF key = "ArrowLeft"
    THEN SetSelectedImage("ImageGallery.prevImage", key, PrevImage(selectedImage, Len(images)))
    ELSE IF key = "ArrowRight"
    THEN SetSelectedImage("ImageGallery.nextImage", key, NextImage(selectedImage, Len(images)))
    ELSE SetSelectedImage("ImageGallery.handleKeyDown", key, selectedImage)

\* the dots and the thumbnails (the first six images), rendered when there are
\* several images
GallerySelect == \E index \in 0..(Len(images) - 1) :
    /\ Len(images) > 1
    /\ SetSelectedImage("ImageGallery.setSelectedImage", "dot", index)

----------------------------------------------------------------------------
(* Specifications *)

\* the application in one tab, from a first visit
Next ==
    \/ IndexMount
    \/ IndexUnmount
    \/ CardFavorite
    \/ PanelRemove
    \/ ClearFavorites
    \/ FormChange
    \/ HandleSubmit
    \/ DetailMount
    \/ DetailNavigate
    \/ DetailUnmount
    \/ DetailHandleFavorite

Spec == Init /\ [][Next]_vars

\* the favorites of both pages, starting from whatever the slot held
NextStored ==
    \/ IndexMount
    \/ IndexUnmount
    \/ CardFavorite
    \/ PanelRemove
    \/ ClearFavorites
    \/ DetailMount
    \/ DetailNavigate
    \/ DetailUnmount
    \/ DetailHandleFavorite

SpecStored == InitStored /\ [][NextStored]_vars

\* handleSearch as a function of the catalog and of its SearchFilters argument
NextSearch == HandleSubmit

SpecSearch == InitSearch /\ [][NextSearch]_vars

\* handleSearch called when an earlier search has left its result on show
SpecSearchAgain == InitSearchAgain /\ [][NextSearch]_vars

\* the callbacks Index hands to its children, called with any Property
NextCallback ==
    \/ IndexMount
    \/ IndexUnmount
    \/ OnFavorite
    \/ OnRemoveFavorite
    \/ ClearFavorites

SpecCallback == Init /\ [][NextCallback]_vars

\* the search form filled in and submitted
NextForm ==
    \/ FormChange
    \/ HandleSubmit

SpecForm == InitForm /\ [][NextForm]_vars

\* the detail page over any catalog
InitLookup == \E catalog \in Catalogs : Fresh(catalog, Missing)

NextLookup ==
    \/ DetailOpen
    \/ DetailNavigate
    \/ DetailUnmount
    \/ DetailHandleFavorite

SpecLookup == InitLookup /\ [][NextLookup]_vars

\* the two pages open in two tabs of one browser: they share the slot
NextTabs ==
    \/ IndexOpen
    \/ IndexUnmount
    \/ CardFavorite
    \/ PanelRemove
    \/ ClearFavorites
    \/ DetailOpen
    \/ DetailNavigate
    \/ DetailUnmount
    \/ DetailHandleFavorite

SpecTabs == Init /\ [][NextTabs]_vars

\* the gallery on its own
NextGallery ==
    \/ GalleryNext
    \/ GalleryPrev
    \/ GalleryKeyDown
    \/ GallerySelect

SpecGallery == InitGallery /\ [][NextGallery]_vars

----------------------------------------------------------------------------
(* Properties of the favorites operations *)

ToggleOps == {"PropertyCard.onFavorite", "FavoritesPanel.onRemoveFavorite",
              "PropertyDetail.handleFavorite"}
LoadOps == {"Index.mount", "PropertyDetail.mount", "PropertyDetail.idChange"}

\* the favorites state of the page whose handler ran last
Acting == IF last.op \in {"PropertyDetail.handleFavorite", "PropertyDetail.mount",
                          "PropertyDetail.idChange", "PropertyDetail.unmount"}
          THEN detailFavorites ELSE favorites

HasId(s, n) == \E i \in 1..Len(s) : s[i].id = n
IdSet(s) == { s[i].id : i \in 1..Len(s) }

\* C1: a toggle of R on the collection F yields F without every entry of R's id,
\* the others in their order, when F holds that id, and F with R appended as
\* the last entry otherwise
C1_Toggle ==
    last.op \in ToggleOps =>
        LET F == last.before.v
            R == last.arg
        IN  IF HasId(F, R.id)
            THEN /\ ~HasId(Acting.v, R.id)
                 /\ Acting.v = SelectSeq(F, LAMBDA e : e.id # R.id)
            ELSE /\ Len(Acting.v) = Len(F) + 1
                 /\ SubSeq(Acting.v, 1, Len(F)) = F
                 /\ Acting.v[Len(F) + 1] = R

\* a toggle removed two entries sharing R's id and kept another entry
C1_Witness ==
    /\ last.op \in ToggleOps
    /\ Cardinality({ i \in 1..Len(last.before.v) : last.before.v[i].id = last.arg.id }) = 2
    /\ Len(Acting.v) >= 1

\* C2: once a toggle has returned, the slot holds the serialization of exactly
\* the collection the toggle produced for its page, and reading it gives that
\* collection back
C2_PersistedOnReturn ==
    last.op \in ToggleOps =>
        /\ localStorage.k = "text"
        /\ localStorage.v = JSONstringify(Acting.v)
        /\ JSONparse(localStorage.v) = [ok |-> TRUE, v |-> Acting]

\* the detail page toggled and left two favorites in the slot
C2_Witness ==
    /\ last.op = "PropertyDetail.handleFavorite"
    /\ Len(detailFavorites.v) = 2
    /\ localStorage # last.stored

\* C3: the operation behind onRemoveFavorite removes R when R.id is in F, and
\* leaves the collection and the persisted value as they were when it is not
C3_RemoveContract ==
    last.op = "FavoritesPanel.onRemoveFavorite" =>
        IF HasId(last.before.v, last.arg.id)
        THEN ~HasId(favorites.v, last.arg.id)
        ELSE favorites = last.before /\ localStorage = last.stored

\* the value in the slot parses to an array of property records
ParsesToRecords(stored) ==
    /\ stored.k = "text"
    /\ JSONparse(stored.v).ok
    /\ IsArray(JSONparse(stored.v).v)
    /\ \A i \in 1..Len(JSONparse(stored.v).v.v) : IsRecord(JSONparse(stored.v).v.v[i])

\* C4: a page that loads while the slot holds a value that is no sequence of
\* property records ends with an empty favorites collection and raises nothing
C4_HydrationFailsSafe ==
    (last.op \in LoadOps /\ last.stored.k = "text" /\ ~ParsesToRecords(last.stored)) =>
        /\ last.threw = "none"
        /\ Acting = Arr(<<>>)

----------------------------------------------------------------------------
(* Properties of the search *)

Searched == last.op = "Index.handleSearch"

\* the search ran with `key` as its only field, holding an integer
OnlyInteger(key) ==
    /\ Searched
    /\ Present(last.arg) = {key}
    /\ last.arg[key].k = "number"

Shown(p) == p \in Range(filteredProperties)

\* f with every field but `key` absent
Only(f, key) == [other \in KeySet |-> IF other = key THEN f[key] ELSE Undefined]

\* C5: a search whose only criterion is maxPrice = R.price - 1 does not return R
C5_BoundaryExclusion ==
    OnlyInteger("maxPrice") =>
        \A R \in Range(properties) : last.arg.maxPrice.v = R.price - 1 => ~Shown(R)

\* C6: a search whose only criterion is minPrice = R.price returns R
C6_BoundaryInclusion ==
    OnlyInteger("minPrice") =>
        \A R \in Range(properties) : last.arg.minPrice.v = R.price => Shown(R)

\* a search for minPrice = 0 alone showing a record priced 0 next to another
C6_Witness ==
    /\ OnlyInteger("minPrice")
    /\ last.arg.minPrice.v = 0
    /\ \E R \in Range(properties) : R.price = 0 /\ Shown(R)
    /\ Len(filteredProperties) = 2

\* C7: minPrice alone keeps exactly the records with price >= minPrice, and
\* maxPrice alone exactly those with price <= maxPrice
C7_PriceBounds ==
    /\ OnlyInteger("minPrice") =>
          filteredProperties = SelectSeq(properties, LAMBDA p : p.price >= last.arg.minPrice.v)
    /\ OnlyInteger("maxPrice") =>
          filteredProperties = SelectSeq(properties, LAMBDA p : p.price <= last.arg.maxPrice.v)

\* C8: minBedrooms alone keeps exactly the records with bedrooms >= minBedrooms,
\* and maxBedrooms alone (0 included) exactly those with bedrooms <= maxBedrooms
C8_BedroomBounds ==
    /\ (OnlyInteger("minBedrooms") /\ last.arg.minBedrooms.v >= 0) =>
          filteredProperties =
              SelectSeq(properties, LAMBDA p : p.bedrooms >= last.arg.minBedrooms.v)
    /\ (OnlyInteger("maxBedrooms") /\ last.arg.maxBedrooms.v >= 0) =>
          filteredProperties =
              SelectSeq(properties, LAMBDA p : p.bedrooms <= last.arg.maxBedrooms.v)

\* C9: a search with no field set shows the whole catalog, in its order
C9_EmptyCriteria ==
    (Searched /\ Present(last.arg) = {}) => filteredProperties = properties

\* such a search ran over a catalog of two records
C9_Witness ==
    /\ Searched
    /\ Present(last.arg) = {}
    /\ Len(properties) = 2
    /\ filteredProperties = properties

\* the orders in which the fields in K can be taken
Orders(K) ==
    { order \in [1..Cardinality(K) -> K] :
        \A i, j \in 1..Cardinality(K) : order[i] = order[j] => i = j }

\* every rotation of Keys, and each of them reversed
Rotations ==
    LET n == Len(Keys)
        rot(k) == [i \in 1..n |-> Keys[((i + k - 1) % n) + 1]]
    IN  { rot(k) : k \in 0..(n - 1) } \cup { [i \in 1..n |-> rot(k)[n + 1 - i]] : k \in 0..(n - 1) }

\* C10: the result is the catalog cut down to the records every present
\* criterion keeps when applied alone, and taking the criteria in another
\* order gives the same sequence
C10_Conjunctive ==
    Searched =>
        /\ filteredProperties =
              SelectSeq(properties, LAMBDA p :
                  \A key \in Present(last.arg) :
                      p \in Range(SearchResult(properties, properties, Only(last.arg, key))))
        /\ \A order \in Orders(Present(last.arg)) :
              Steps(order, last.arg, properties) = filteredProperties
        /\ \A order \in Rotations :
              Steps(order, last.arg, properties) = filteredProperties

\* two criteria, each keeping one record of two when alone, together keep none
C10_Witness ==
    /\ Searched
    /\ Cardinality(Present(last.arg)) = 2
    /\ Len(properties) = 2
    /\ Len(filteredProperties) = 0
    /\ \A key \in Present(last.arg) :
          Len(SearchResult(properties, properties, Only(last.arg, key))) = 1

\* s is t with some of its elements left out: the elements of s are elements
\* of t, taken at increasing positions
IsSubsequence(s, t) ==
    \E at \in [1..Len(s) -> 1..Len(t)] :
        /\ \A i \in 1..Len(s) : t[at[i]] = s[i]
        /\ \A i, j \in 1..Len(s) : i < j => at[i] < at[j]

\* C11: the result of a search is a subsequence of the catalog: catalog records
\* only, none more often than in the catalog, in the catalog's order
C11_Subsequence ==
    Searched => IsSubsequence(filteredProperties, properties)

\* a search with a criterion set kept both records of a catalog of two
C11_Witness ==
    /\ Searched
    /\ Present(last.arg) # {}
    /\ Len(properties) = 2
    /\ filteredProperties = properties

\* last.arg without its type field
WithoutType == [last.arg EXCEPT !.type = Undefined]

\* C12: a type other than "Any" keeps exactly the records of that very type,
\* letter case included; "Any" or no type excludes no record
C12_TypeCriterion ==
    Searched =>
        LET t == last.arg.type
            others == SearchResult(properties, properties, WithoutType)
        IN  IF t # Undefined /\ t # Str(ANY)
            THEN /\ filteredProperties = SelectSeq(others, LAMBDA p : p.type = t.v)
                 /\ Present(last.arg) = {"type"} =>
                        filteredProperties = SelectSeq(properties, LAMBDA p : p.type = t.v)
            ELSE filteredProperties = others

\* a search for the type "house" alone over a catalog holding a "House" shows nothing
C12_Witness ==
    /\ Searched
    /\ Present(last.arg) = {"type"}
    /\ last.arg.type = Str(<<"h", "o", "u", "s", "e">>)
    /\ \E p \in Range(properties) : p.type = HOUSE
    /\ filteredProperties = <<>>

\* the same letter, whatever its case
SameLetter(a, b) ==
    \/ a = b
    \/ \E j \in 1..Len(UpperCase) : {a, b} = {UpperCase[j], LowerCase[j]}

\* part occurs in s at some position, letter case disregarded
ContainsIgnoringCase(s, part) ==
    \E at \in 0..(Len(s) - Len(part)) :
        \A j \in 1..Len(part) : SameLetter(s[at + j], part[j])

\* C13: postcodeArea alone keeps exactly the records whose postcode contains
\* it, letter case disregarded
C13_PostcodeCriterion ==
    (Searched /\ Present(last.arg) = {"postcodeArea"}) =>
        filteredProperties =
            SelectSeq(properties, LAMBDA p :
                ContainsIgnoringCase(p.postcode, last.arg.postcodeArea.v))

\* a search for "sw" showed the record at SW1 and not the one at NW1
C13_Witness ==
    /\ Searched
    /\ Present(last.arg) = {"postcodeArea"}
    /\ last.arg.postcodeArea = Str(<<"s", "w">>)
    /\ properties = <<House1, Flat2>>
    /\ filteredProperties = <<House1>>

\* the year, month and day of the text "YYYY-MM-DD"
CalendarDate(s) ==
    <<DigitsValue(SubSeq(s, 1, 4), 4), DigitsValue(SubSeq(s, 6, 7), 2),
      DigitsValue(SubSeq(s, 9, 10), 2)>>

\* the day a is the day b or a later one
OnOrAfter(a, b) ==
    LET x == CalendarDate(a)
        y == CalendarDate(b)
    IN  \/ x[1] > y[1]
        \/ x[1] = y[1] /\ x[2] > y[2]
        \/ x[1] = y[1] /\ x[2] = y[2] /\ x[3] >= y[3]

\* C14: dateFrom alone keeps exactly the records added on that day or later,
\* dateTo alone exactly those added on that day or earlier
C14_DateBounds ==
    /\ (Searched /\ Present(last.arg) = {"dateFrom"}) =>
          filteredProperties =
              SelectSeq(properties, LAMBDA p : OnOrAfter(p.added, last.arg.dateFrom.v))
    /\ (Searched /\ Present(last.arg) = {"dateTo"}) =>
          filteredProperties =
              SelectSeq(properties, LAMBDA p : OnOrAfter(last.arg.dateTo.v, p.added))

\* a search from 2024-06-01 on showed the record added that day and not the
\* one added in January
C14_Witness ==
    /\ Searched
    /\ Present(last.arg) = {"dateFrom"}
    /\ last.arg.dateFrom = Str(Jun01)
    /\ properties = <<House1, Flat2>>
    /\ filteredProperties = <<Flat2>>

\* C15: a numeric field given an input that parses to not-a-number is stored
\* as absent, and a search whose numeric field is not-a-number shows what the
\* search without that field shows
C15_MalformedNumber ==
    /\ (/\ last.op = "SearchForm.handleFilterChange"
        /\ last.arg.key \in NumericKeys
        /\ last.arg.value = NaN) => filters[last.arg.key] = Undefined
    /\ \A key \in NumericKeys :
          SearchResult(properties, filteredProperties, [filters EXCEPT ![key] = NaN])
              = SearchResult(properties, filteredProperties, [filters EXCEPT ![key] = Undefined])

\* the maxPrice input was emptied and the form holds no criterion
C15_Witness ==
    /\ last.op = "SearchForm.handleFilterChange"
    /\ last.arg = [key |-> "maxPrice", value |-> NaN]
    /\ filters = EmptyFilters
    /\ Len(properties) = 2

----------------------------------------------------------------------------
(* Further properties of the favorites operations *)

\* the toggle of the page that acted last, applied once more to its collection
ToggledAgain ==
    IF last.op = "PropertyDetail.handleFavorite"
    THEN DetailToggle(Acting.v, last.arg)
    ELSE IndexToggle(Acting.v, last.arg)

\* C16: toggling R a second time, right after a toggle of R on F, gives a
\* collection with the ids of F, and persists a value with those ids
C16_ToggleTwice ==
    last.op \in ToggleOps =>
        /\ IdSet(ToggledAgain.favorites.v) = IdSet(last.before.v)
        /\ ToggledAgain.stored.k = "text"
        /\ JSONparse(ToggledAgain.stored.v).ok
        /\ IdSet(JSONparse(ToggledAgain.stored.v).v.v) = IdSet(last.before.v)

\* a toggle took the record of id 1 out of a collection holding the ids 1 and 2
C16_Witness ==
    /\ last.op \in ToggleOps
    /\ last.arg.id = 1
    /\ IdSet(last.before.v) = {1, 2}
    /\ IdSet(Acting.v) = {2}

\* C17: once clearFavorites has returned, the listing page holds no favorite
\* and the key is absent from storage
C17_ClearAll ==
    last.op = "Index.clearFavorites" =>
        /\ favorites = Arr(<<>>)
        /\ localStorage = Missing

\* clearFavorites ran on two favorites that the slot held as text
C17_Witness ==
    /\ last.op = "Index.clearFavorites"
    /\ Len(last.before.v) = 2
    /\ last.stored.k = "text"
    /\ favorites = Arr(<<>>)

\* the value in the slot read back as a collection
Persisted == JSONparse(localStorage.v)

\* C18: from an absent key on, no collection of a page and no persisted
\* collection holds two entries of one id
C18_UniqueIds ==
    /\ UniqueIds(favorites.v)
    /\ UniqueIds(detailFavorites.v)
    /\ localStorage.k = "text" =>
          /\ Persisted.ok
          /\ IsArray(Persisted.v)
          /\ UniqueIds(Persisted.v.v)

\* the detail page toggled and holds two favorites, which the slot holds too
C18_Witness ==
    /\ last.op = "PropertyDetail.handleFavorite"
    /\ Len(detailFavorites.v) = 2
    /\ localStorage = Text(JSONstringify(detailFavorites.v))
    /\ Len(last.before.v) = 1

\* C19: a load step that finds the key absent leaves its page with an empty
\* favorites collection
C19_MissingKeyMeansEmpty ==
    (last.op \in LoadOps /\ last.stored = Missing) =>
        Acting = Arr(<<>>)

\* what a page mounting now would hold after its load step
MountedNow == Hydrate(Arr(<<>>))

\* C20: a page that mounts after a toggle produced F hydrates to a collection
\* with the ids of F, F empty included
C20_RoundTrip ==
    last.op \in ToggleOps =>
        /\ MountedNow.threw = "none"
        /\ IsArray(MountedNow.favorites)
        /\ IdSet(MountedNow.favorites.v) = IdSet(Acting.v)

\* a toggle took out the last favorite and the slot holds the empty list
C20_Witness ==
    /\ last.op \in ToggleOps
    /\ Len(last.before.v) = 1
    /\ Acting = Arr(<<>>)
    /\ localStorage = Text(JSONstringify(<<>>))

----------------------------------------------------------------------------
(* Properties of the detail lookup *)

\* the effect of the detail page ran last, for the route id last.arg
Looked == last.op \in {"PropertyDetail.mount", "PropertyDetail.idChange"}

\* the text is a decimal numeral: an optional sign, then digits only
IsNumeral(s) ==
    LET body == IF Len(s) > 0 /\ s[1] \in {"-", "+"} THEN Tail(s) ELSE s
    IN  Len(body) > 0 /\ \A i \in 1..Len(body) : IsDigit(body[i])

\* the number a numeral denotes
NumeralValue(s) ==
    LET negative == s[1] = "-"
        body == IF s[1] \in {"-", "+"} THEN Tail(s) ELSE s
    IN  IF negative THEN 0 - DigitsValue(body, Len(body)) ELSE DigitsValue(body, Len(body))

\* C21: a route id that is missing, is no number, or is zero ends the lookup
\* with no property
C21_IdentifierParsing ==
    (/\ Looked
     /\ \/ last.arg = Undefined
        \/ ~IsNumeral(last.arg.v)
        \/ NumeralValue(last.arg.v) = 0) => property = Null

\* C22: a numeric route id yields the catalog record of that id when there is
\* one, and otherwise the page in its not-found state; no error either way
C22_DetailLookup ==
    (Looked /\ last.arg # Undefined /\ IsNumeral(last.arg.v)) =>
        /\ last.threw = "none"
        /\ detailMounted
        /\ loading = FALSE
        /\ IF \E p \in Range(properties) : p.id = NumeralValue(last.arg.v)
           THEN /\ property \in Range(properties)
                /\ property.id = NumeralValue(last.arg.v)
           ELSE property = Null

\* the lookup of "2" found the second record of a catalog of two
C22_Witness ==
    /\ Looked
    /\ last.arg = Str(<<"2">>)
    /\ properties = <<House1, Flat2>>
    /\ property = Flat2
    /\ loading = FALSE

----------------------------------------------------------------------------
(* Identity of a favorite *)

\* C23: a toggle of R takes out a stored entry of R's id whose other fields
\* differ, and isFavorite holds for an id exactly when an entry has that id
C23_IdentityById ==
    /\ (/\ last.op \in ToggleOps
        /\ \E S \in Range(last.before.v) : S.id = last.arg.id /\ S # last.arg) =>
            /\ ~HasId(Acting.v, last.arg.id)
            /\ Len(Acting.v) < Len(last.before.v)
    /\ indexMounted =>
          \A p \in PropertyPool \cup StalePool :
              IndexIsFavorite(favorites.v, p.id) <=> HasId(favorites.v, p.id)
    /\ (detailMounted /\ property # Null) =>
          (DetailIsFavorite(property, detailFavorites.v)
              <=> HasId(detailFavorites.v, property.id))

\* the record of id 1 was toggled while the collection held its stale snapshot
C23_Witness ==
    /\ last.op \in ToggleOps
    /\ last.arg = House1
    /\ StaleHouse1 \in Range(last.before.v)
    /\ House1 \notin Range(last.before.v)
    /\ ~HasId(Acting.v, 1)

----------------------------------------------------------------------------
(* What a search and the other operations leave alone *)

\* the criterion `key` of f keeps the record p
Keeps(key, f, p) == Step(key, f, <<p>>) = <<p>>

\* C24: handleSearch leaves the catalog, the favorites and the slot as they
\* were, and shows the catalog records that the submitted criteria keep,
\* whatever the earlier search had left on show
C24_SearchFrame ==
    Searched =>
        /\ properties = last.before.catalog
        /\ favorites = last.before.favorites
        /\ localStorage = last.stored
        /\ filteredProperties =
              SelectSeq(properties, LAMBDA p : \A key \in KeySet : Keeps(key, last.arg, p))

\* a search showed a record that the earlier search had left out
C24_Witness ==
    /\ Searched
    /\ Len(last.before.shown) < Len(properties)
    /\ \E p \in Range(filteredProperties) : p \notin Range(last.before.shown)

\* C25: whatever has run, the catalog is the sequence of records loaded at
\* the start, each with the fields it had then, and its ids are unique
C25_CatalogReadOnly ==
    /\ properties = Listing
    /\ UniqueIds(properties)

\* a favorite was toggled while a search had part of the catalog on show
C25_Witness ==
    /\ last.op = "PropertyCard.onFavorite"
    /\ Len(filteredProperties) < Len(properties)
    /\ Len(favorites.v) = 2
    /\ properties = Listing

----------------------------------------------------------------------------
(* The two pages alive at once *)

\* the collection a toggle of R makes of F
Toggled(F, R) ==
    IF HasId(F, R.id) THEN SelectSeq(F, LAMBDA e : e.id # R.id) ELSE Append(F, R)

\* C26: with both pages alive, the value in the slot after a toggle is the
\* serialization of the toggling page's own collection, whatever the other
\* page had stored before
C26_LastWriteWins ==
    last.op \in ToggleOps =>
        /\ Acting.v = Toggled(last.before.v, last.arg)
        /\ localStorage = Text(JSONstringify(Toggled(last.before.v, last.arg)))

\* the detail page toggled over a value the listing page had stored, and an id
\* of that value is in the slot no more
C26_Witness ==
    /\ last.op = "PropertyDetail.handleFavorite"
    /\ indexMounted
    /\ last.stored.k = "text"
    /\ last.stored # Text(JSONstringify(last.before.v))
    /\ \E n \in IdSet(JSONparse(last.stored.v).v.v) :
          n # last.arg.id /\ n \notin IdSet(JSONparse(localStorage.v).v.v)

----------------------------------------------------------------------------
(* One page at a time: the favorites as one shared collection *)

\* the ids of the one shared collection, as the slot holds it: none while the
\* key is absent
SharedIds(stored) ==
    IF stored.k = "text" /\ JSONparse(stored.v).ok
    THEN IdSet(JSONparse(stored.v).v.v)
    ELSE {}

\* a toggle of the id n on a set of ids
ToggledIds(S, n) == IF n \in S THEN S \ {n} ELSE S \cup {n}

\* C27: with one page mounted at a time, every toggle and clear-all acts on
\* the one shared collection (a toggle of R toggles R's id in it, clear-all
\* empties it, nothing else changes it), and a mounted page's favorites and
\* the persisted collection have exactly its ids
C27_NoFavoriteLost ==
    /\ ~(indexMounted /\ detailMounted)
    /\ indexMounted => IdSet(favorites.v) = SharedIds(localStorage)
    /\ detailMounted => IdSet(detailFavorites.v) = SharedIds(localStorage)
    /\ localStorage.k = "text" => JSONparse(localStorage.v).ok
    /\ IF last.op \in ToggleOps
       THEN SharedIds(localStorage) = ToggledIds(SharedIds(last.stored), last.arg.id)
       ELSE IF last.op = "Index.clearFavorites"
       THEN SharedIds(localStorage) = {}
       ELSE last.op # "none" => SharedIds(localStorage) = SharedIds(last.stored)

\* the listing page mounted and hydrated two favorites, the later one first in
\* the catalog
C27_Witness ==
    /\ last.op = "Index.mount"
    /\ indexMounted
    /\ IdSet(favorites.v) = {1, 2}
    /\ favorites.v[2].id = 1

----------------------------------------------------------------------------
(* Zero as a numeric criterion *)

\* C28: handleFilterChange given 0 stores the field as absent, and handleSearch
\* given 0 in a numeric field shows what it shows with that field absent
C28_ZeroIsUnset ==
    /\ (/\ last.op = "SearchForm.handleFilterChange"
        /\ last.arg.value.k = "number"
        /\ last.arg.value.v = 0) => filters[last.arg.key] = Undefined
    /\ \A key \in NumericKeys :
          SearchResult(properties, filteredProperties, [filters EXCEPT ![key] = Num(0)])
              = SearchResult(properties, filteredProperties, [filters EXCEPT ![key] = Undefined])

\* 0 was typed into the minPrice input and the form holds no criterion
C28_Witness ==
    /\ last.op = "SearchForm.handleFilterChange"
    /\ last.arg = [key |-> "minPrice", value |-> Num(0)]
    /\ filters = EmptyFilters
    /\ Len(properties) = 2

----------------------------------------------------------------------------
(* When the key is there *)

\* C29: a toggle leaves the key present, holding the empty list when it took
\* out the last favorite; only clear-all makes a present key absent; and a
\* present key holds the serialization of a list of property records
C29_KeyPresence ==
    /\ last.op \in ToggleOps => localStorage.k = "text"
    /\ (/\ last.op \in ToggleOps
        /\ Len(last.before.v) = 1
        /\ HasId(last.before.v, last.arg.id)) => localStorage = Text(JSONstringify(<<>>))
    /\ (last.op \notin {"none", "Index.clearFavorites"} /\ last.stored.k = "text") =>
          localStorage.k = "text"
    /\ localStorage.k = "text" =>
          /\ ParsesToRecords(localStorage)
          /\ localStorage.v = JSONstringify(JSONparse(localStorage.v).v.v)

\* the listing page took out its last favorite: the key holds the empty list
C29_Witness ==
    /\ last.op \in {"PropertyCard.onFavorite", "FavoritesPanel.onRemoveFavorite"}
    /\ Len(last.before.v) = 1
    /\ favorites = Arr(<<>>)
    /\ localStorage = Text(JSONstringify(<<>>))

----------------------------------------------------------------------------
(* The index of the image gallery *)

\* C30: for a list of at least one image, selectedImage is an index of the
\* list; next goes one image on and from the last to the first, previous one
\* image back and from the first to the last, and previous after next gives
\* the same image
C30_GalleryIndex ==
    Len(images) >= 1 =>
        /\ selectedImage \in 0..(Len(images) - 1)
        /\ last.op = "ImageGallery.nextImage" =>
              selectedImage = IF last.before.v = Len(images) - 1 THEN 0
                              ELSE last.before.v + 1
        /\ last.op = "ImageGallery.prevImage" =>
              selectedImage = IF last.before.v = 0 THEN Len(images) - 1
                              ELSE last.before.v - 1
        /\ PrevImage(NextImage(selectedImage, Len(images)), Len(images)) = selectedImage

\* ArrowLeft on the first of three images showed the last
C30_Witness ==
    /\ last.op = "ImageGallery.prevImage"
    /\ last.arg = [via |-> "ArrowLeft"]
    /\ Len(images) = 3
    /\ last.before = Num(0)
    /\ selectedImage = 2

====
